---------------------------- MODULE Spec2Model ----------------------------
(***************************************************************************)
(* Earnings-drift backtest engine (src/backtest.py) driven by the run      *)
(* button of the Streamlit front end (src/app.py).                         *)
(*                                                                         *)
(* Representation.                                                         *)
(*  - A calendar date is its day ordinal counted from 2008-01-01 (day 0);  *)
(*    the proleptic Gregorian calendar is modelled so that                 *)
(*    relativedelta(months=k) clips the day of month as dateutil does.     *)
(*  - A timestamp of the earnings calendar is <<day, timeOfDay>>; price    *)
(*    bars and the configured dates are midnight timestamps, i.e. days.    *)
(*  - A float is an exact rational <<num, den>> in lowest terms with       *)
(*    den > 0, and NaN is <<0, 0>>.  With prices in 1..2 every ratio the   *)
(*    engine forms is dyadic, so the rational and the IEEE double agree.   *)
(*  - A pandas Series is a function from its index (a set of days, kept    *)
(*    in ascending order by the index) to floats.                          *)
(***************************************************************************)
EXTENDS Integers, Sequences, FiniteSets, TLC

----------------------------------------------------------------------------
(* Generic helpers *)

Min(S) == CHOOSE x \in S : \A y \in S : x <= y
Max(S) == CHOOSE x \in S : \A y \in S : y <= x
Abs(x) == IF x < 0 THEN -x ELSE x

RECURSIVE Gcd(_, _)
Gcd(a, b) == IF b = 0 THEN a ELSE Gcd(b, a % b)

\* The elements of a finite set of integers as an ascending sequence
\* (DataFrame.sort_index on a DatetimeIndex).
RECURSIVE SortedSeq(_)
SortedSeq(S) == IF S = {} THEN << >> ELSE << Min(S) >> \o SortedSeq(S \ {Min(S)})

Range(s) == { s[i] : i \in DOMAIN s }

\* Let(v, F) binds the value v to the parameter of F: a local variable that
\* is assigned once and read several times.
Let(v, F(_)) == F(v)

----------------------------------------------------------------------------
(* Floats as exact rationals *)

NaN == << 0, 0 >>
IsNaN(x) == x[2] = 0

Norm(n, d) ==
    IF d = 0 THEN NaN
    ELSE LET g == Gcd(Abs(n), Abs(d))
             s == IF d < 0 THEN -1 ELSE 1
         IN  << (s * n) \div g, (s * d) \div g >>

Flt(n) == << n, 1 >>
FAdd(x, y) == IF IsNaN(x) \/ IsNaN(y) THEN NaN ELSE Norm(x[1] * y[2] + y[1] * x[2], x[2] * y[2])
FSub(x, y) == IF IsNaN(x) \/ IsNaN(y) THEN NaN ELSE Norm(x[1] * y[2] - y[1] * x[2], x[2] * y[2])
FMul(x, y) == IF IsNaN(x) \/ IsNaN(y) THEN NaN ELSE Norm(x[1] * y[1], x[2] * y[2])
FDiv(x, y) == IF IsNaN(x) \/ IsNaN(y) THEN NaN ELSE Norm(x[1] * y[2], x[2] * y[1])
\* Comparisons with NaN are False, as in IEEE arithmetic.
FGe(x, y) == ~IsNaN(x) /\ ~IsNaN(y) /\ x[1] * y[2] >= y[1] * x[2]
FGt(x, y) == ~IsNaN(x) /\ ~IsNaN(y) /\ x[1] * y[2] > y[1] * x[2]
FLt(x, y) == FGt(y, x)

----------------------------------------------------------------------------
(* Calendar: pd.Timestamp arithmetic and dateutil.relativedelta *)

IsLeap(y) == (y % 4 = 0 /\ y % 100 # 0) \/ y % 400 = 0
DaysInYear(y) == IF IsLeap(y) THEN 366 ELSE 365
DaysInMonth(y, m) ==
    IF m = 2 THEN (IF IsLeap(y) THEN 29 ELSE 28)
    ELSE IF m \in {4, 6, 9, 11} THEN 30 ELSE 31

RECURSIVE DaysBeforeYear(_)
DaysBeforeYear(y) == IF y <= 2008 THEN 0 ELSE DaysBeforeYear(y - 1) + DaysInYear(y - 1)

RECURSIVE DaysBeforeMonth(_, _)
DaysBeforeMonth(y, m) == IF m <= 1 THEN 0 ELSE DaysBeforeMonth(y, m - 1) + DaysInMonth(y, m - 1)

\* pd.Timestamp("y-m-d") as a day ordinal.
Date(y, m, d) == DaysBeforeYear(y) + DaysBeforeMonth(y, m) + (d - 1)

RECURSIVE YearOf(_, _)
YearOf(n, y) == IF n < DaysInYear(y) THEN << y, n >> ELSE YearOf(n - DaysInYear(y), y + 1)

RECURSIVE MonthOf(_, _, _)
MonthOf(n, y, m) ==
    IF n < DaysInMonth(y, m) THEN << m, n + 1 >> ELSE MonthOf(n - DaysInMonth(y, m), y, m + 1)

\* The civil date [y, m, d] of a day ordinal.
Civil(n) ==
    LET yr == YearOf(n, 2008)
        md == MonthOf(yr[2], yr[1], 1)
    IN  [y |-> yr[1], m |-> md[1], d |-> md[2]]

\* ts + relativedelta(months=k): the month moves, the day of month is clipped
\* to the length of the target month.
AddMonths(n, k) ==
    LET c  == Civil(n)
        t  == c.y * 12 + (c.m - 1) + k
        y2 == t \div 12
        m2 == (t % 12) + 1
        dm == DaysInMonth(y2, m2)
    IN  Date(y2, m2, IF c.d > dm THEN dm ELSE c.d)

\* Timestamp.normalize(): the midnight of the timestamp's day.
Normalize(ts) == ts[1]

\* Comparison of an earnings timestamp with a midnight timestamp.
TsGe(ts, day) == ts[1] >= day
TsLe(ts, day) == ts[1] < day \/ (ts[1] = day /\ ts[2] = 0)
TsLess(a, b) == a[1] < b[1] \/ (a[1] = b[1] /\ a[2] < b[2])

----------------------------------------------------------------------------
(* The external collaborators and the configuration *)

Tickers == { "A", "B" }
Bench == "S"
Symbols == Tickers \cup { Bench }

\* sorted() of ticker symbols and sort_values on the "ticker" column compare
\* strings; the model's symbols are ordered A < B < S.
TickerRank(t) == IF t = "A" THEN 1 ELSE IF t = "B" THEN 2 ELSE 3

VARIABLES
    cfg,        \* the configuration record app.py builds from the side bar
    quotes,     \* price provider: symbol -> (day -> adjusted close), one entry per bar
    calendar,   \* earnings provider: ticker -> [ok, dates] (ok = FALSE: the call raises)
    pc,         \* position of the run-button handler of app.py
    drift,      \* (stats, trades, equity, bench_equity) of run_backtest
    baseline    \* (stats, trades, equity, bench_equity) of run_backtest_baseline

vars == << cfg, quotes, calendar, pc, drift, baseline >>

default_config ==
    [ tickers |-> << "A", "B" >>,
      benchmark |-> Bench,
      start_date |-> Date(2010, 1, 1),
      end_date |-> << >>,
      three_month_signal_threshold |-> Flt(0),
      min_price_history_days |-> 400,
      calendar_pad_days |-> 5 ]

\* end_date is << >> for None and << day >> for a date string.
safe_end_date(end_date, today) == IF end_date = << >> THEN today ELSE end_date[1]

\* list(dict.fromkeys(xs)): first occurrences, order kept.
RECURSIVE Dedupe(_)
Dedupe(xs) ==
    IF xs = << >> THEN << >>
    ELSE LET n    == Len(xs)
             init == Dedupe(SubSeq(xs, 1, n - 1))
         IN  IF xs[n] \in Range(init) THEN init ELSE Append(init, xs[n])

\* Series.ffill() of one downloaded column: the last bar at or before d.
Ffill(bars, idx, d) ==
    LET seen == { x \in DOMAIN bars \cap idx : x <= d }
    IN  IF seen = {} THEN NaN ELSE Flt(bars[Max(seen)])

\* yf.download(...)["Close"].sort_index().ffill(): one row per day on which any
\* requested symbol has a bar in [start, end), every column forward filled.
download_prices(q, unique_tickers, start, end) ==
    LET idx == { d \in UNION { DOMAIN q[t] : t \in unique_tickers } : start <= d /\ d < end }
    IN  [ index |-> idx,
          col   |-> [ t \in unique_tickers |-> [ d \in idx |-> Ffill(q[t], idx, d) ] ] ]

\* Series.dropna()
Dropna(series) == [ d \in { x \in DOMAIN series : ~IsNaN(series[x]) } |-> series[d] ]

\* sorted(list of timestamps): insertion sort.
RECURSIVE SortTs(_)
SortTs(xs) ==
    IF xs = << >> THEN << >>
    ELSE LET n    == Len(xs)
             init == SortTs(SubSeq(xs, 1, n - 1))
             k    == Cardinality({ i \in DOMAIN init : ~TsLess(xs[n], init[i]) })
         IN  SubSeq(init, 1, k) \o << xs[n] >> \o SubSeq(init, k + 1, Len(init))

SelectTs(xs, start, end) == SelectSeq(xs, LAMBDA ts : TsGe(ts, start) /\ TsLe(ts, end))

get_earnings_dates(cal, ticker, start_date, end_date) ==
    IF ~cal[ticker].ok THEN << >>
    ELSE IF cal[ticker].dates = << >> THEN << >>
    ELSE SortTs(SelectTs(cal[ticker].dates, start_date, end_date))

\* series.loc[:dt].iloc[-1]; << >> stands for the IndexError of an empty slice.
LastAtOrBefore(series, dt) ==
    LET seen == { d \in DOMAIN series : d <= dt }
    IN  IF seen = {} THEN << >> ELSE << series[Max(seen)] >>

pct_return(series, start_dt, end_dt) ==
    LET s == LastAtOrBefore(series, end_dt)
        b == LastAtOrBefore(series, start_dt)
    IN  IF s = << >> \/ b = << >> THEN NaN
        ELSE FSub(FDiv(s[1], b[1]), Flt(1))

\* index[index.get_indexer([target], method="nearest")[0]] on a non-empty
\* ascending index: the closer neighbour, the later one on a tie.
Nearest(idx, target) ==
    LET left  == { d \in idx : d <= target }
        right == { d \in idx : d >= target }
    IN  IF right = {} THEN Max(left)
        ELSE IF left = {} THEN Min(right)
        ELSE IF target - Max(left) < Min(right) - target THEN Max(left)
        ELSE Min(right)

effective_end_for_signals(c, end_date) ==
    IF c.calendar_pad_days > 0 THEN end_date - c.calendar_pad_days ELSE end_date

----------------------------------------------------------------------------
(* Signal and trade generation *)

\* Snap without the entry_ts >= exit_ts test of lines 86 / 178.
SnapAnyOrder(px, prices, E) ==
    Let(Nearest(DOMAIN px, AddMonths(E, 3)), LAMBDA entry_ts :
    Let(Nearest(DOMAIN px, AddMonths(E, 12)), LAMBDA exit_ts :
      IF entry_ts >= Max(prices.index) THEN << >>
      ELSE << entry_ts, exit_ts >>))

\* Lines 79-87 / 171-179: the snapped entry and exit days of earnings day E,
\* << >> when the event is discarded.  px is never empty here, so the
\* get_indexer call cannot raise.
Snap(px, prices, E) ==
    Let(Nearest(DOMAIN px, AddMonths(E, 3)), LAMBDA entry_ts :
    Let(Nearest(DOMAIN px, AddMonths(E, 12)), LAMBDA exit_ts :
      IF entry_ts >= exit_ts \/ entry_ts >= Max(prices.index) THEN << >>
      ELSE << entry_ts, exit_ts >>))

\* Lines 95-102 / 184-191.  The ISO date strings of the record are modelled
\* by the day ordinal they denote (string order is date order).
TradeRecord(tkr, E, px, at, r3m) ==
    [ ticker     |-> tkr,
      earn_date  |-> E,
      entry_date |-> at[1],
      exit_date  |-> at[2],
      r_3m       |-> r3m,
      r_hold     |-> FSub(FDiv(px[at[2]], px[at[1]]), Flt(1)) ]

\* The comparison of line 91 made strict.
PassesSignalStrict(r3m, threshold) == FGt(r3m, threshold)

\* The inclusive comparison of line 91.
PassesSignal(r3m, threshold) == FGe(r3m, threshold)

\* The loop body of run_backtest with the signal read from the holding-period
\* return instead of r3m.
DriftEventOnHold(c, prices, px, tkr, ts, eff_end) ==
    Let(Normalize(ts), LAMBDA E :
      IF E < Min(DOMAIN px) \/ E > eff_end THEN << >>
      ELSE Let(Snap(px, prices, E), LAMBDA at :
             IF at = << >> THEN << >>
             ELSE Let(TradeRecord(tkr, E, px, at, pct_return(px, E, at[1])), LAMBDA row :
                    IF IsNaN(row.r_3m) THEN << >>
                    ELSE IF PassesSignal(row.r_hold, c.three_month_signal_threshold)
                         THEN << row >>
                         ELSE << >>)))

\* One iteration of the loop over earn_dates in run_backtest (lines 75-102).
DriftEvent(c, prices, px, tkr, ts, eff_end) ==
    Let(Normalize(ts), LAMBDA E :
      IF E < Min(DOMAIN px) \/ E > eff_end THEN << >>
      ELSE Let(Snap(px, prices, E), LAMBDA at :
             IF at = << >> THEN << >>
             ELSE Let(pct_return(px, E, at[1]), LAMBDA r3m :
                    IF IsNaN(r3m) THEN << >>
                    ELSE IF PassesSignal(r3m, c.three_month_signal_threshold)
                         THEN << TradeRecord(tkr, E, px, at, r3m) >>
                         ELSE << >>)))

\* The loop body of run_backtest_baseline with the filter of line 91 added.
BaselineEventFiltered(c, prices, px, tkr, ts, eff_end) ==
    Let(Normalize(ts), LAMBDA E :
      IF E < Min(DOMAIN px) \/ E > eff_end THEN << >>
      ELSE Let(Snap(px, prices, E), LAMBDA at :
             IF at = << >> THEN << >>
             ELSE Let(pct_return(px, E, at[1]), LAMBDA r3m :
                    IF PassesSignal(r3m, c.three_month_signal_threshold)
                    THEN << TradeRecord(tkr, E, px, at, r3m) >>
                    ELSE << >>)))

\* One iteration of the loop over earn_dates in run_backtest_baseline
\* (lines 167-191).
BaselineEvent(c, prices, px, tkr, ts, eff_end) ==
    Let(Normalize(ts), LAMBDA E :
      IF E < Min(DOMAIN px) \/ E > eff_end THEN << >>
      ELSE Let(Snap(px, prices, E), LAMBDA at :
             IF at = << >> THEN << >>
             ELSE << TradeRecord(tkr, E, px, at, pct_return(px, E, at[1])) >>))

RECURSIVE EventLoop(_, _, _, _, _, _, _)
EventLoop(drifting, c, prices, px, tkr, earn_dates, eff_end) ==
    IF earn_dates = << >> THEN << >>
    ELSE LET n == Len(earn_dates)
         IN  EventLoop(drifting, c, prices, px, tkr, SubSeq(earn_dates, 1, n - 1), eff_end)
             \o (IF drifting
                 THEN DriftEvent(c, prices, px, tkr, earn_dates[n], eff_end)
                 ELSE BaselineEvent(c, prices, px, tkr, earn_dates[n], eff_end))

\* The guards of lines 69-72: TRUE when the ticker is skipped.
SkipTicker(c, px) ==
    \/ DOMAIN px = {}
    \/ Max(DOMAIN px) - Min(DOMAIN px) < c.min_price_history_days

\* One iteration of the loop over tickers (lines 67-102 / 159-191).
TickerTrades(drifting, c, cal, prices, tkr, start_date, eff_end) ==
    Let(Dropna(prices.col[tkr]), LAMBDA px :
      IF SkipTicker(c, px) THEN << >>
      ELSE EventLoop(drifting, c, prices, px, tkr,
                     get_earnings_dates(cal, tkr, start_date, eff_end), eff_end))

RECURSIVE TickerLoop(_, _, _, _, _, _, _)
TickerLoop(drifting, c, cal, prices, tickers, start_date, eff_end) ==
    IF tickers = << >> THEN << >>
    ELSE LET n == Len(tickers)
         IN  TickerLoop(drifting, c, cal, prices, SubSeq(tickers, 1, n - 1), start_date, eff_end)
             \o TickerTrades(drifting, c, cal, prices, tickers[n], start_date, eff_end)

\* The sort key of sort_values(["entry_date", "ticker"]).
KeyLess(a, b) ==
    \/ a.entry_date < b.entry_date
    \/ (a.entry_date = b.entry_date /\ TickerRank(a.ticker) < TickerRank(b.ticker))

\* DataFrame.sort_values on two columns is a stable sort: rows with equal keys
\* keep the order in which they were appended.
RECURSIVE SortTrades(_)
SortTrades(rows) ==
    IF rows = << >> THEN << >>
    ELSE LET n    == Len(rows)
             init == SortTrades(SubSeq(rows, 1, n - 1))
             k    == Cardinality({ i \in DOMAIN init : ~KeyLess(rows[n], init[i]) })
         IN  SubSeq(init, 1, k) \o << rows[n] >> \o SubSeq(init, k + 1, Len(init))

----------------------------------------------------------------------------
(* Portfolio simulation *)

\* series.pct_change().fillna(0.0) on an ascending index: the first entry has
\* no predecessor (NaN, filled with 0), and so has an entry after a NaN.
PctChangeFill0(series) ==
    [ d \in DOMAIN series |->
        LET before == { x \in DOMAIN series : x < d }
        IN  IF before = {} THEN Flt(0)
            ELSE LET r == FSub(FDiv(series[d], series[Max(before)]), Flt(1))
                 IN  IF IsNaN(r) THEN Flt(0) ELSE r ]

\* prices[ticker].loc[entry_date:exit_date].pct_change().fillna(0.0)
\* (lines 114 / 203); the slice bounds are inclusive.
Segment(prices, row) ==
    LET days == { d \in prices.index : row.entry_date <= d /\ d <= row.exit_date }
    IN  PctChangeFill0([ d \in days |-> prices.col[row.ticker][d] ])

RECURSIVE FSum(_)
FSum(xs) == IF xs = << >> THEN Flt(0) ELSE FAdd(FSum(Tail(xs)), Head(xs))

\* Series.mean() / DataFrame.mean(axis=1): NaN entries are skipped, the mean
\* of nothing is NaN.
FMean(xs) ==
    LET kept == SelectSeq(xs, LAMBDA x : ~IsNaN(x))
    IN  IF kept = << >> THEN NaN ELSE FDiv(FSum(kept), Flt(Len(kept)))

\* A mean over all positions, a closed position counting as a return of 0.
PositionsMeanAll(positions, d) ==
    LET open == SelectSeq(positions, LAMBDA seg : d \in DOMAIN seg)
    IN  IF open = << >> THEN NaN
        ELSE FDiv(FSum([ i \in DOMAIN open |-> open[i][d] ]), Flt(Len(positions)))

\* pd.concat(positions, axis=1).mean(axis=1) at day d: the columns that hold
\* a value on d are the segments whose slice contains d.
PositionsMean(positions, d) ==
    LET open == SelectSeq(positions, LAMBDA seg : d \in DOMAIN seg)
    IN  FMean([ i \in DOMAIN open |-> open[i][d] ])

\* ....reindex(daily_index).fillna(0.0) (lines 118 / 207)
DailyRet(positions, daily_index) ==
    [ d \in daily_index |->
        LET m == PositionsMean(positions, d)
        IN  IF IsNaN(m) THEN Flt(0) ELSE m ]

\* (1.0 + returns).cumprod() over the first days S of the index: the running
\* product, one factor per day.
RECURSIVE CumProdOver(_, _)
CumProdOver(returns, S) ==
    IF S = {} THEN << >>
    ELSE Let(CumProdOver(returns, S \ { Max(S) }), LAMBDA before :
           before @@ (Max(S) :> FMul(IF DOMAIN before = {} THEN Flt(1)
                                     ELSE before[Max(DOMAIN before)],
                                     FAdd(Flt(1), returns[Max(S)]))))

CumProd(returns) == CumProdOver(returns, DOMAIN returns)

\* Lines 109-119 / 198-208.
EquityCurve(prices, trades, daily_index) ==
    Let([ i \in DOMAIN trades |-> Segment(prices, trades[i]) ], LAMBDA positions :
      IF positions = << >> THEN [ d \in daily_index |-> Flt(1) ]
      ELSE CumProd(DailyRet(positions, daily_index)))

\* bench_prices.reindex(daily_index).ffill().pct_change().fillna(0.0), then
\* the cumulative product (lines 121-122 / 210-211).
BenchEquity(bench_prices, daily_index) ==
    LET reindexed == [ d \in daily_index |->
                         IF d \in DOMAIN bench_prices THEN bench_prices[d] ELSE NaN ]
        filled    == [ d \in daily_index |->
                         LET seen == { x \in daily_index : x <= d /\ ~IsNaN(reindexed[x]) }
                         IN  IF seen = {} THEN NaN ELSE reindexed[Max(seen)] ]
    IN  CumProd(PctChangeFill0(filled))

----------------------------------------------------------------------------
(* Statistics *)

\* curve.pct_change().dropna() as a sequence in index order.
CurveReturns(curve) ==
    LET idx == SortedSeq(DOMAIN curve)
        all == [ i \in 1 .. (Len(idx) - 1) |->
                   FSub(FDiv(curve[idx[i + 1]], curve[idx[i]]), Flt(1)) ]
    IN  SelectSeq(all, LAMBDA x : ~IsNaN(x))

\* sharpe(returns): mu / sig if sig > 0 else NaN.  sig > 0 exactly when the
\* returns are not all equal; the quotient involves a square root and is kept
\* symbolically as << mu_num, mu_den, len, freq >>.
Sharpe(returns) ==
    IF returns = << >> \/ \A i \in DOMAIN returns : returns[i] = returns[1] THEN NaN
    ELSE LET mu == FMul(FMean(returns), Flt(252))
         IN  << mu[1], mu[2], Len(returns), 252 >>

\* Cagr defined only from three points on.
CagrFromThree(curve) ==
    IF Cardinality(DOMAIN curve) > 2
    THEN LET final == curve[Max(DOMAIN curve)]
         IN  IF final = Flt(1) THEN Flt(0)
             ELSE << final[1], final[2], Cardinality(DOMAIN curve) >>
    ELSE NaN

\* final ** (252.0 / len) - 1.0 if len > 1 else NaN.  1.0 ** e is exactly
\* 1.0; any other power is kept symbolically as << num, den, len >>.
Cagr(curve) ==
    IF Cardinality(DOMAIN curve) > 1
    THEN LET final == curve[Max(DOMAIN curve)]
         IN  IF final = Flt(1) THEN Flt(0)
             ELSE << final[1], final[2], Cardinality(DOMAIN curve) >>
    ELSE NaN

\* float(((curve / curve.cummax()) - 1.0).min()) if len(curve) else NaN
MaxDrawdown(curve) ==
    IF DOMAIN curve = {} THEN NaN
    ELSE LET cummax(d) == CHOOSE m \in { curve[x] : x \in { y \in DOMAIN curve : y <= d } } :
                              \A x \in { y \in DOMAIN curve : y <= d } : FGe(m, curve[x])
             dd == { FSub(FDiv(curve[d], cummax(d)), Flt(1)) : d \in DOMAIN curve }
         IN  CHOOSE m \in dd : \A x \in dd : FGe(x, m)

\* Series.median(): the middle of the sorted values.
Median(xs) ==
    LET n      == Len(xs)
        rank(i) == Cardinality({ j \in DOMAIN xs : FLt(xs[j], xs[i]) \/ (xs[j] = xs[i] /\ j < i) }) + 1
        at(k)  == xs[CHOOSE i \in DOMAIN xs : rank(i) = k]
    IN  IF n % 2 = 1 THEN at((n + 1) \div 2)
        ELSE FDiv(FAdd(at(n \div 2), at(n \div 2 + 1)), Flt(2))

\* Lines 129-142 / 218-231.
Stats(trades, equity, bench_equity) ==
    LET r_hold == [ i \in DOMAIN trades |-> trades[i].r_hold ]
        wins   == Cardinality({ i \in DOMAIN trades : FGt(r_hold[i], Flt(0)) })
        n      == Len(trades)
    IN  [ trades              |-> n,
          win_rate            |-> IF n # 0 THEN Norm(wins, n) ELSE NaN,
          avg_trade_return    |-> IF n # 0 THEN FMean(r_hold) ELSE NaN,
          median_trade_return |-> IF n # 0 THEN Median(r_hold) ELSE NaN,
          equity_cagr         |-> Cagr(equity),
          bench_cagr          |-> Cagr(bench_equity),
          sharpe              |-> Sharpe(CurveReturns(equity)),
          bench_sharpe        |-> Sharpe(CurveReturns(bench_equity)),
          max_drawdown        |-> MaxDrawdown(equity),
          bench_max_drawdown  |-> MaxDrawdown(bench_equity) ]

----------------------------------------------------------------------------
(* The two engines *)

\* Lines 104-144 / 193-233: the sorted ledger, the two curves, the statistics.
Simulate(prices, bench_prices, ledger, daily_index) ==
    Let(SortTrades(ledger), LAMBDA trades :
    Let(EquityCurve(prices, trades, daily_index), LAMBDA equity :
    Let(BenchEquity(bench_prices, daily_index), LAMBDA bench_equity :
      [ stats        |-> Stats(trades, equity, bench_equity),
        trades       |-> trades,
        equity       |-> equity,
        bench_equity |-> bench_equity ])))

\* Lines 63-144 / 155-233, after the configuration has been read.
Backtest(drifting, c, q, cal, tickers, start_date, end_date, eff_end) ==
    Let(download_prices(q, Range(tickers) \cup { c.benchmark }, start_date - 500, end_date + 2),
        LAMBDA prices :
          Simulate(prices,
                   Dropna(prices.col[c.benchmark]),
                   TickerLoop(drifting, c, cal, prices, tickers, start_date, eff_end),
                   { d \in prices.index : start_date <= d /\ d <= end_date }))

\* Lines 55-144 (drifting) and 147-233 (baseline): the two functions differ
\* only in the body of the loop over earn_dates.
Engine(drifting, c, q, cal, today) ==
    Let(safe_end_date(c.end_date, today), LAMBDA end_date :
      Backtest(drifting, c, q, cal, Dedupe(c.tickers), c.start_date, end_date,
               effective_end_for_signals(c, end_date)))

run_backtest(c, q, cal, today) == Engine(TRUE, c, q, cal, today)

run_backtest_baseline(c, q, cal, today) == Engine(FALSE, c, q, cal, today)

----------------------------------------------------------------------------
(* The state machine: app.py's run button *)

\* Bounds of the explored inputs: bar prices range over 1 .. MaxPrice, an
\* earnings feed lists at most MaxEarn announcements.
MaxPrice == 2
MaxEarn == 2

\* Days on which the price provider may hold a bar.  2010-04-04 is three
\* months after the first announcement, 2011-01-04 twelve months after it.
BarDaysA == { Date(2009, 12, 31), Date(2010, 4, 5), Date(2011, 1, 4), Date(2011, 12, 30) }
BarDaysB == { Date(2009, 12, 31), Date(2010, 4, 4), Date(2011, 12, 30) }
BarDaysS == { Date(2009, 12, 31), Date(2010, 4, 5), Date(2011, 12, 30) }

\* Every bar series over a set of days: any subset of the days, any prices.
Bars(days) == UNION { [ S -> 1 .. MaxPrice ] : S \in SUBSET days }

\* Series of ticker A with a bar on each of its days: one price in 2009, one
\* in 2010 and one from 2011 on.
RampBars ==
    { [ d \in BarDaysA |-> IF d < Date(2010, 1, 1) THEN p
                           ELSE IF d < Date(2011, 1, 1) THEN q ELSE r ] : p, q, r \in 1 .. MaxPrice }

\* Series of ticker B: any subset of its days at price 1.
UnitBars == { [ d \in S |-> 1 ] : S \in SUBSET BarDaysB }

\* Benchmark series: any subset of its days, price 1 in 2010 and 2 in 2011.
BenchBars == { [ d \in S |-> IF d < Date(2011, 1, 1) THEN 1 ELSE 2 ] : S \in SUBSET BarDaysS }

\* Announcement timestamps: two on 2010-01-04 (midnight and during the day)
\* and one on 2011-01-04; 2009-12-31 lies before the default start date.
EarnStamps == { << Date(2010, 1, 4), 0 >>, << Date(2010, 1, 4), 1 >>, << Date(2011, 1, 4), 0 >> }
EarlyStamp == << Date(2009, 12, 31), 0 >>

\* The provider lists the most recent announcement first.
IsNewestFirst(l) == \A i \in DOMAIN l : \A j \in DOMAIN l : i < j => ~TsLess(l[i], l[j])
EarnLists == { l \in UNION { [ 1 .. n -> EarnStamps ] : n \in 0 .. MaxEarn } : IsNewestFirst(l) }

Raises == [ ok |-> FALSE, dates |-> << >> ]
Feed(l) == [ ok |-> TRUE, dates |-> l ]
ShortFeeds == { Raises, Feed(<< >>), Feed(<< EarlyStamp >>) }
                  \cup { Feed(<< ts >>) : ts \in { x \in EarnStamps : x[2] = 0 } }

Thresholds == { Flt(0), Flt(1) }

\* The wall clock of safe_end_date when end_date is None.
Today == Date(2011, 12, 31)

Config(tl, end, th, pad) ==
    [ default_config EXCEPT !.tickers = tl,
                            !.end_date = end,
                            !.three_month_signal_threshold = th,
                            !.calendar_pad_days = pad ]

NoResult == [ stats |-> << >>, trades |-> << >>, equity |-> << >>, bench_equity |-> << >> ]

\* An empty ticker list: only the benchmark is downloaded.
InitNone ==
    /\ cfg \in { Config(<< >>, end, th, pad) :
                 end \in { << >>, << Date(2011, 12, 31) >> }, th \in Thresholds, pad \in { 0, 5 } }
    /\ \E s \in BenchBars : quotes = ("A" :> << >> @@ "B" :> << >> @@ "S" :> s)
    /\ calendar = [ t \in Tickers |-> Feed(<< >>) ]

SoloConfigs ==
    { Config(<< "A" >>, << Date(2011, 12, 31) >>, x[1], x[2]) :
      x \in { << Flt(0), 5 >>, << Flt(1), 5 >>, << Flt(0), 0 >> } }

\* One ticker with every bar series, no benchmark data, and a feed that
\* raises or lists at most one announcement.
InitSolo ==
    /\ cfg \in SoloConfigs
    /\ \E a \in Bars(BarDaysA) : quotes = ("A" :> a @@ "B" :> << >> @@ "S" :> << >>)
    /\ \E f \in ShortFeeds : calendar = ("A" :> f @@ "B" :> Feed(<< >>))

\* One ticker with a bar at any price on each of its days, a benchmark with a
\* bar on each of its days, and every feed of two announcements or more.
InitBusy ==
    /\ cfg \in SoloConfigs
    /\ \E a \in [ BarDaysA -> 1 .. MaxPrice ] :
          quotes = ("A" :> a @@ "B" :> << >>
                      @@ "S" :> [ d \in BarDaysS |-> IF d < Date(2011, 1, 1) THEN 1 ELSE 2 ])
    /\ \E l \in { x \in EarnLists : Len(x) >= 2 } : calendar = ("A" :> Feed(l) @@ "B" :> Feed(<< >>))

\* Two tickers (the list may repeat one), the second with bars on any of its
\* days and possibly a failing earnings feed.
InitPair ==
    /\ cfg \in { Config(x[1], << Date(2011, 12, 31) >>, x[2], 5) :
                 x \in { << << "A", "B" >>, Flt(0) >>, << << "A", "B" >>, Flt(1) >>,
                         << << "B", "A", "B" >>, Flt(0) >> } }
    /\ \E a \in RampBars, b \in UnitBars :
          quotes = ("A" :> a @@ "B" :> b @@ "S" :> << >>)
    /\ \E f \in { Feed(<< << Date(2010, 1, 4), 0 >> >>),
                  Feed(<< << Date(2011, 1, 4), 0 >>, << Date(2010, 1, 4), 0 >> >>) },
          g \in ShortFeeds :
          calendar = ("A" :> f @@ "B" :> g)

Init ==
    /\ InitNone \/ InitSolo \/ InitBusy \/ InitPair
    /\ pc = "idle"
    /\ drift = NoResult
    /\ baseline = NoResult

\* app.py line 42
RunBacktest ==
    /\ pc = "idle"
    /\ drift' = run_backtest(cfg, quotes, calendar, Today)
    /\ pc' = "drift_done"
    /\ UNCHANGED << cfg, quotes, calendar, baseline >>

\* app.py line 44
RunBacktestBaseline ==
    /\ pc = "drift_done"
    /\ baseline' = run_backtest_baseline(cfg, quotes, calendar, Today)
    /\ pc' = "done"
    /\ UNCHANGED << cfg, quotes, calendar, drift >>

Next == RunBacktest \/ RunBacktestBaseline

Spec == Init /\ [][Next]_vars

----------------------------------------------------------------------------
(* Views of a finished run used by the properties below *)

\* The results returned so far.
Results ==
    IF pc = "idle" THEN { } ELSE IF pc = "drift_done" THEN { drift } ELSE { drift, baseline }

EndDate == safe_end_date(cfg.end_date, Today)
EffEnd == effective_end_for_signals(cfg, EndDate)

\* The price table of the run (line 63) and a ticker's own series (line 68).
Table ==
    download_prices(quotes, Range(Dedupe(cfg.tickers)) \cup { cfg.benchmark },
                    cfg.start_date - 500, EndDate + 2)
Px(t) == Dropna(Table.col[t])

\* The earnings days of ticker t that reach line 88 / 180: the ticker is not
\* skipped and the event passes the guards of lines 77 and 86.
GuardedEvents(prices, t) ==
    Let(Dropna(prices.col[t]), LAMBDA px :
      IF SkipTicker(cfg, px) THEN { }
      ELSE { E \in { Normalize(ts) :
                     ts \in Range(get_earnings_dates(calendar, t, cfg.start_date, EffEnd)) } :
             /\ E >= Min(DOMAIN px)
             /\ E <= EffEnd
             /\ Snap(px, prices, E) # << >> })

\* R3 of a guarded event: the return from the earnings day to the entry day.
R3(prices, t, E) ==
    Let(Dropna(prices.col[t]), LAMBDA px : pct_return(px, E, Snap(px, prices, E)[1]))

HasTrade(ledger, t, E) ==
    \E i \in DOMAIN ledger : ledger[i].ticker = t /\ ledger[i].earn_date = E

----------------------------------------------------------------------------
(* C1 *)

\* C1: every trade of either ledger has entry_date < exit_date, and its
\* exit_date is a day of its ticker's own non-missing price series, hence
\* between the earliest and the last available price day of that ticker.
C1_ExitWithinPrices ==
    Let(Table, LAMBDA prices :
      \A res \in Results : \A i \in DOMAIN res.trades :
          Let(res.trades[i], LAMBDA r :
          Let(DOMAIN Dropna(prices.col[r.ticker]), LAMBDA days :
            /\ r.entry_date < r.exit_date
            /\ r.exit_date \in days
            /\ Min(days) <= r.exit_date
            /\ r.exit_date <= Max(days))))

\* Both engines have returned a non-empty ledger, one trade of which exits
\* before the last available price day.
C1_Witness ==
    /\ pc = "done"
    /\ drift.trades # << >>
    /\ \E i \in DOMAIN baseline.trades :
          baseline.trades[i].exit_date < Max(DOMAIN Px(baseline.trades[i].ticker))

----------------------------------------------------------------------------
(* C2 *)

\* The daily return a curve compounds on day d.
DailyReturn(curve, d) ==
    Let({ x \in DOMAIN curve : x < d }, LAMBDA before :
      IF before = { } THEN FSub(curve[d], Flt(1))
      ELSE FSub(FDiv(curve[d], curve[Max(before)]), Flt(1)))

OpenTrades(ledger, d) ==
    { i \in DOMAIN ledger : ledger[i].entry_date <= d /\ d <= ledger[i].exit_date }

\* The percent change of the trade's ticker on day d, 0 on the entry day.
TickerChange(prices, r, d) ==
    IF d = r.entry_date THEN Flt(0)
    ELSE FSub(FDiv(prices.col[r.ticker][d],
                   prices.col[r.ticker][Max({ x \in prices.index : x < d })]), Flt(1))

RECURSIVE SumChanges(_, _, _, _)
SumChanges(prices, ledger, I, d) ==
    IF I = { } THEN Flt(0)
    ELSE FAdd(SumChanges(prices, ledger, I \ { Max(I) }, d),
              TickerChange(prices, ledger[Max(I)], d))

\* C2: on every day of the daily index the portfolio return is 0 when no
\* trade is open, the open trade's ticker's percent change (0 on its entry
\* day) when exactly one is open, and the arithmetic mean over the open
\* trades in general.
C2_EqualWeight ==
    Let(Table, LAMBDA prices :
      \A res \in Results : \A d \in DOMAIN res.equity :
          Let(OpenTrades(res.trades, d), LAMBDA open :
            DailyReturn(res.equity, d) =
              IF open = { } THEN Flt(0)
              ELSE IF Cardinality(open) = 1
                   THEN TickerChange(prices, res.trades[CHOOSE i \in open : TRUE], d)
                   ELSE FDiv(SumChanges(prices, res.trades, open, d), Flt(Cardinality(open)))))

\* The drift curve holds a trade and has a day with none open; the baseline
\* curve has a day with exactly one open trade and a day with several, both
\* with a non-zero return.
C2_Witness ==
    /\ pc = "done"
    /\ drift.trades # << >>
    /\ \E d \in DOMAIN drift.equity : OpenTrades(drift.trades, d) = { }
    /\ \E d \in DOMAIN baseline.equity :
          /\ Cardinality(OpenTrades(baseline.trades, d)) = 1
          /\ DailyReturn(baseline.equity, d) # Flt(0)
    /\ \E d \in DOMAIN baseline.equity :
          /\ Cardinality(OpenTrades(baseline.trades, d)) > 1
          /\ DailyReturn(baseline.equity, d) # Flt(0)

----------------------------------------------------------------------------
(* C3 *)

\* C3: on the first day of the daily index the portfolio curve and the
\* benchmark curve are both exactly 1.0.
C3_CurvesStartAtOne ==
    \A res \in Results :
        DOMAIN res.equity # { } =>
            /\ res.equity[Min(DOMAIN res.equity)] = Flt(1)
            /\ res.bench_equity[Min(DOMAIN res.bench_equity)] = Flt(1)

----------------------------------------------------------------------------
(* C4 *)

\* C4: in the drift strategy an event that passes the date guards and has a
\* defined R3 is traded if and only if R3 >= threshold; R3 equal to the
\* threshold is traded.
C4_ThresholdInclusive ==
    pc # "idle" =>
        Let(Table, LAMBDA prices :
          \A t \in Range(Dedupe(cfg.tickers)) : \A E \in GuardedEvents(prices, t) :
              Let(R3(prices, t, E), LAMBDA r :
                ~IsNaN(r) =>
                    (HasTrade(drift.trades, t, E)
                       <=> r[1] * cfg.three_month_signal_threshold[2]
                             >= cfg.three_month_signal_threshold[1] * r[2])))

\* A run in which one event with R3 equal to the threshold is traded and one
\* event with R3 below the threshold is not.
C4_Witness ==
    /\ pc # "idle"
    /\ \E t \in Range(Dedupe(cfg.tickers)) : \E E \in GuardedEvents(Table, t) :
          /\ R3(Table, t, E) = cfg.three_month_signal_threshold
          /\ HasTrade(drift.trades, t, E)
    /\ \E t \in Range(Dedupe(cfg.tickers)) : \E E \in GuardedEvents(Table, t) :
          /\ FLt(R3(Table, t, E), cfg.three_month_signal_threshold)
          /\ ~HasTrade(drift.trades, t, E)

----------------------------------------------------------------------------
(* C5 *)

\* The ledger of run_backtest_baseline (lines 157-194) on the inputs of this
\* run under threshold th.
BaselineLedger(prices, th) ==
    SortTrades(TickerLoop(FALSE, [ cfg EXCEPT !.three_month_signal_threshold = th ],
                          calendar, prices, Dedupe(cfg.tickers), cfg.start_date, EffEnd))

\* C5: the baseline ledger is the same for every threshold, and every event
\* that passes the date guards is in it, whatever its R3.
C5_BaselineIgnoresThreshold ==
    pc = "done" =>
        Let(Table, LAMBDA prices :
          /\ \A th \in Thresholds \cup { Flt(0 - 1) } :
                BaselineLedger(prices, th) = baseline.trades
          /\ \A t \in Range(Dedupe(cfg.tickers)) : \A E \in GuardedEvents(prices, t) :
                HasTrade(baseline.trades, t, E))

\* The baseline ledger holds a trade whose R3 is below the configured
\* threshold.
C5_Witness ==
    /\ pc = "done"
    /\ \E i \in DOMAIN baseline.trades :
          FLt(baseline.trades[i].r_3m, cfg.three_month_signal_threshold)

----------------------------------------------------------------------------
(* C6 *)

\* A ticker whose processing fails: no usable prices, too short a history,
\* or an earnings fetch that raises.
Fails(t) == SkipTicker(cfg, Px(t)) \/ ~calendar[t].ok

\* C6: a failing ticker contributes no trade and leaves the trades of every
\* other ticker exactly as they are in the run from which it is absent.
C6_FailureIsolation ==
    pc # "idle" =>
        \A t \in Range(cfg.tickers) :
            Fails(t) =>
                /\ \A i \in DOMAIN drift.trades : drift.trades[i].ticker # t
                /\ drift.trades =
                     run_backtest([ cfg EXCEPT !.tickers = SelectSeq(cfg.tickers, LAMBDA x : x # t) ],
                                  quotes, calendar, Today).trades

----------------------------------------------------------------------------
(* C7 *)

\* The part of C7 that does not depend on the length of the daily index.
FlatAndUndefined(res) ==
    /\ \A d \in DOMAIN res.equity : res.equity[d] = Flt(1)
    /\ res.stats.trades = 0
    /\ IsNaN(res.stats.win_rate)
    /\ IsNaN(res.stats.avg_trade_return)
    /\ IsNaN(res.stats.median_trade_return)
    /\ IsNaN(res.stats.sharpe)

\* C7 as stated: with an empty ledger the curve is flat at 1.0, trades is 0,
\* win_rate, avg_trade_return, median_trade_return and sharpe are NaN, and
\* equity_cagr and max_drawdown are exactly 0.0.
C7_EmptyLedgerZeroStats ==
    \A res \in Results :
        res.trades = << >> =>
            /\ FlatAndUndefined(res)
            /\ res.stats.equity_cagr = Flt(0)
            /\ res.stats.max_drawdown = Flt(0)

\* C7 (amended): with an empty ledger the curve is flat at 1.0, trades is 0,
\* win_rate, avg_trade_return, median_trade_return and sharpe are NaN;
\* equity_cagr is exactly 0.0 when the daily index has at least two days and
\* NaN otherwise; max_drawdown is exactly 0.0 when the daily index is not
\* empty and NaN otherwise.
C7_EmptyLedgerStats ==
    \A res \in Results :
        res.trades = << >> =>
            /\ FlatAndUndefined(res)
            /\ res.stats.equity_cagr =
                 (IF Cardinality(DOMAIN res.equity) >= 2 THEN Flt(0) ELSE NaN)
            /\ res.stats.max_drawdown =
                 (IF DOMAIN res.equity # { } THEN Flt(0) ELSE NaN)

\* A run over a ticker list that is not empty in which every event was
\* discarded, on a daily index of two days or more.
C7_Witness ==
    /\ pc = "done"
    /\ cfg.tickers # << >>
    /\ \E t \in Range(cfg.tickers) :
          get_earnings_dates(calendar, t, cfg.start_date, EffEnd) # << >>
    /\ drift.trades = << >>
    /\ baseline.trades = << >>
    /\ Cardinality(DOMAIN drift.equity) >= 2
    /\ drift.stats.equity_cagr = Flt(0)

----------------------------------------------------------------------------
(* C8 *)

\* C8: a ledger holds at most one trade per (ticker, earnings date).
C8_OneTradePerEvent ==
    \A res \in Results : \A i \in DOMAIN res.trades : \A j \in DOMAIN res.trades :
        (res.trades[i].ticker = res.trades[j].ticker
           /\ res.trades[i].earn_date = res.trades[j].earn_date) => i = j

----------------------------------------------------------------------------
(* C9 *)

\* C9: no trade's twelve-month window is truncated: the earnings day plus
\* twelve months is not after the ticker's last available price day.
C9_WindowNotTruncated ==
    \A res \in Results : \A i \in DOMAIN res.trades :
        AddMonths(res.trades[i].earn_date, 12) <= Max(DOMAIN Px(res.trades[i].ticker))

----------------------------------------------------------------------------
(* C10 *)

\* C10: on the same inputs the drift ledger is the baseline ledger restricted
\* to the trades whose r_3m is defined and >= threshold, in the same order.
C10_DriftIsFilteredBaseline ==
    pc = "done" =>
        drift.trades =
            SelectSeq(baseline.trades,
                      LAMBDA r : ~IsNaN(r.r_3m) /\ FGe(r.r_3m, cfg.three_month_signal_threshold))

\* The drift ledger is not empty and is shorter than the baseline ledger,
\* which holds trades of two tickers.
C10_Witness ==
    /\ pc = "done"
    /\ drift.trades # << >>
    /\ Len(drift.trades) < Len(baseline.trades)
    /\ \E i \in DOMAIN baseline.trades : baseline.trades[i].ticker # baseline.trades[1].ticker

=============================================================================
